---------------------------- MODULE Spec2Model ----------------------------
(***************************************************************************)
(* The Checkpointable dependency graph and the checkpoint-key naming of    *)
(* tensorflow/contrib/eager/python/checkpointable.py.                      *)
(*                                                                         *)
(* Python strings are sequences of one-character strings, so that joining  *)
(* with "/" and matching _VALID_LOCAL_NAME are computed character by       *)
(* character.  An optional name is <<>> (None) or <<s>> (the string s).    *)
(***************************************************************************)
EXTENDS Integers, Sequences, FiniteSets, TLC

(***************************************************************************)
(* Bounds of the model.                                                    *)
(***************************************************************************)
\* Total number of dependency edges, owned variables and optimizer slots.
MaxSize == 3

(***************************************************************************)
(* The objects.  Objs are Checkpointables whose __init__ ran; Uninit is a  *)
(* Checkpointable subclass instance whose __init__ did not run; NotCk is a *)
(* value which is not a Checkpointable.                                    *)
(***************************************************************************)
Objs == {1, 2}
Uninit == 3
NotCk == 0
Optimizers == {2}

None == <<>>
Some(s) == <<s>>

NoVar == [kind |-> "none"]

(***************************************************************************)
(* Characters and strings.                                                 *)
(***************************************************************************)
DigitChars == <<"0", "1", "2", "3", "4", "5", "6", "7", "8", "9">>

Digits == {DigitChars[i] : i \in 1..10}

Letters ==
  {"a", "b", "c", "d", "e", "f", "g", "h", "i", "j", "k", "l", "m",
   "n", "o", "p", "q", "r", "s", "t", "u", "v", "w", "x", "y", "z",
   "A", "B", "C", "D", "E", "F", "G", "H", "I", "J", "K", "L", "M",
   "N", "O", "P", "Q", "R", "S", "T", "U", "V", "W", "X", "Y", "Z"}

\* [A-Za-z0-9.]
FirstChars == Letters \cup Digits \cup {"."}

\* [A-Za-z0-9_.-]
RestChars == FirstChars \cup {"_", "-"}

\* re.compile(r"^[A-Za-z0-9.][A-Za-z0-9_.-]*$").match(s): "$" also matches
\* just before a newline that ends the string.
ValidBody(s) ==
  /\ Len(s) >= 1
  /\ s[1] \in FirstChars
  /\ \A i \in 2..Len(s) : s[i] \in RestChars

VALID_LOCAL_NAME(s) ==
  \/ ValidBody(s)
  \/ /\ Len(s) >= 2
     /\ s[Len(s)] = "\n"
     /\ ValidBody(SubSeq(s, 1, Len(s) - 1))

OPTIMIZER_SLOTS_NAME ==
  <<"_", "O", "P", "T", "I", "M", "I", "Z", "E", "R", "_", "S", "L", "O", "T">>

\* "%d" % (n,) for n >= 0
RECURSIVE Decimal(_)
Decimal(n) ==
  IF n < 10 THEN <<DigitChars[n + 1]>>
  ELSE Decimal(n \div 10) \o <<DigitChars[(n % 10) + 1]>>

\* sep.join(parts)
RECURSIVE Join(_, _)
Join(sep, parts) ==
  IF Len(parts) = 0 THEN <<>>
  ELSE IF Len(parts) = 1 THEN parts[1]
  ELSE parts[1] \o sep \o Join(sep, Tail(parts))

(***************************************************************************)
(* Inputs of the calls.                                                    *)
(***************************************************************************)
\* name= arguments of track_checkpointable
DepNameInputs == {None, Some(<<"0">>), Some(<<"_">>)}

\* name arguments of add_variable (any string is accepted)
VarNameInputs ==
  {<<"v">>, <<"0", "/", "v">>,
   <<"v", "/">> \o OPTIMIZER_SLOTS_NAME \o <<"/", "/", "m">>}

\* names of optimizer slots
SlotNameInputs == {<<"m">>, <<"_", "m">>}

(***************************************************************************)
(* State.                                                                  *)
(***************************************************************************)
VARIABLES
  checkpoint_dependencies,  \* o -> list of _CheckpointableReference
  dependency_names,         \* o -> set of names
  owned_variables,          \* o -> list of _OwnedVariable
  owned_variable_names,     \* o -> set of names
  slots,                    \* optimizer -> set of <<slot name, variable>>
  last,                     \* outcome of the last call
  traversal_call,           \* a call of the traversal: its position and
                            \* its locals
  \* tensorflow/python/estimator/run_config.py
  run_configs,              \* the RunConfig instances: instance -> __dict__
  replace_call,             \* the last call of RunConfig.replace
  \* tensorflow/contrib/lite/testing/generate_examples.py
  FLAGS,                    \* the parsed command line
  zip_call                  \* a call of make_zip_of_tests: its position,
                            \* its arguments and its locals

frame == <<traversal_call>>

run_config_module == <<run_configs, replace_call>>

generate_examples_module == <<FLAGS, zip_call>>

\* The state of the modules other than checkpointable.py.
other_modules == <<run_config_module, generate_examples_module>>

vars ==
  <<checkpoint_dependencies, dependency_names, owned_variables,
    owned_variable_names, slots, last, frame, other_modules>>

graph ==
  <<checkpoint_dependencies, dependency_names, owned_variables,
    owned_variable_names, slots>>

checkpointable_module == <<graph, last, frame>>

CheckpointableReference(name, local_uid, ref) ==
  [name |-> name, local_uid |-> local_uid, ref |-> ref]

OwnedVariable(name, variable) == [name |-> name, variable |-> variable]

\* The variable object a getter creates for add_variable(name) on self.
NewVariable(self, name) == [kind |-> "var", owner |-> self, name |-> name]

\* The slot variable an optimizer creates for a variable.
SlotVariable(opt, slot_name, variable) ==
  [kind |-> "slot", opt |-> opt, slot |-> slot_name, of |-> variable]

RECURSIVE SumOver(_, _)
SumOver(f, S) ==
  IF S = {} THEN 0
  ELSE LET x == CHOOSE y \in S : TRUE IN f[x] + SumOver(f, S \ {x})

Size ==
  SumOver([o \in Objs |-> Len(checkpoint_dependencies[o])], Objs)
  + SumOver([o \in Objs |-> Len(owned_variables[o])], Objs)
  + SumOver([o \in Optimizers |-> Cardinality(slots[o])], Optimizers)

\* What the last call did: the exception it raised ("none" when it returned),
\* the value it returned, and whether it called the variable getter.
Outcome(op, exc, ret, called) ==
  [op |-> op, exc |-> exc, ret |-> ret, getter_called |-> called]

\* A call of _breadth_first_checkpointable_traversal: where it stands
\* ("idle" before the call, "while" at the loop test, "returned", "raised")
\* and its locals.
TraversalCall(pc, root_reference, bfs_sorted, to_visit, path_to_root) ==
  [pc |-> pc, root_checkpointable_reference |-> root_reference,
   bfs_sorted |-> bfs_sorted, to_visit |-> to_visit,
   path_to_root |-> path_to_root]

NoCall == TraversalCall("idle", NoVar, <<>>, <<>>, <<>>)

(***************************************************************************)
(* Python values of run_config.py.                                         *)
(***************************************************************************)
PyNone == [type |-> "NoneType"]
PyStr(s) == [type |-> "str", value |-> s]
PyInt(n) == [type |-> "int", value |-> n]
PyBool(b) == [type |-> "bool", value |-> b]

\* RunConfig.__init__: the __dict__ of a new instance
RunConfigInit == [attr \in {"_model_dir"} |-> PyNone]

\* A call of RunConfig.replace: the instance it was called on, its keyword
\* arguments in the order the loop takes them, the exception it raised
\* ("none" when it returned) and the instance it returned (0 for none).
ReplaceCall(self, kwargs, exc, ret) ==
  [self |-> self, kwargs |-> kwargs, exc |-> exc, ret |-> ret]

NoReplace == ReplaceCall(0, <<>>, "none", 0)

\* A call of make_zip_of_tests: where it stands ("idle" before the call,
\* "for" in the loops, "returned", "raised"), its arguments, the
\* combinations still to come and its locals; tflite_model_binary is the
\* model the last build_example returned.
ZipCall(pc, zip_path, test_parameters, todo, archive, zip_manifest, convert_report, toco_errors) ==
  [pc |-> pc, zip_path |-> zip_path, test_parameters |-> test_parameters,
   todo |-> todo, archive |-> archive, zip_manifest |-> zip_manifest,
   convert_report |-> convert_report, toco_errors |-> toco_errors,
   tflite_model_binary |-> PyNone]

NoZipCall == ZipCall("idle", <<>>, <<>>, <<>>, <<>>, <<>>, <<>>, 0)

\* parser.parse_known_args(): the three switches default to False.
Flags(known_bugs_are_errors, ignore_toco_errors, save_graphdefs) ==
  [known_bugs_are_errors |-> known_bugs_are_errors,
   ignore_toco_errors |-> ignore_toco_errors,
   save_graphdefs |-> save_graphdefs]

DefaultFlags == Flags(FALSE, FALSE, FALSE)

\* Checkpointable.__init__ on every object of Objs; RunConfig() once; the
\* command line not yet parsed
Init ==
  /\ checkpoint_dependencies = [o \in Objs |-> <<>>]
  /\ dependency_names = [o \in Objs |-> {}]
  /\ owned_variables = [o \in Objs |-> <<>>]
  /\ owned_variable_names = [o \in Objs |-> {}]
  /\ slots = [o \in Optimizers |-> {}]
  /\ last = Outcome("__init__", "none", NoVar, FALSE)
  /\ traversal_call = NoCall
  /\ run_configs = <<RunConfigInit>>
  /\ replace_call = NoReplace
  /\ FLAGS = DefaultFlags
  /\ zip_call = NoZipCall


(***************************************************************************)
(* Python dictionaries: functions from keys to values.                     *)
(***************************************************************************)
EmptyDict == [k \in {} |-> NoVar]

\* d[k] = v
DictSet(d, k, v) == [x \in DOMAIN d \cup {k} |-> IF x = k THEN v ELSE d[x]]

(***************************************************************************)
(* _breadth_first_checkpointable_traversal                                 *)
(***************************************************************************)
\* Faulty variant: a new reference is put at the front of to_visit, which makes
\* the traversal depth-first.
RECURSIVE VisitChildren_DepthFirst(_, _, _, _, _)
VisitChildren_DepthFirst(children, i, current, to_visit, path_to_root) ==
  IF i > Len(children)
  THEN [to_visit |-> to_visit, path_to_root |-> path_to_root]
  ELSE LET child == children[i] IN
    IF child \notin DOMAIN path_to_root
    THEN VisitChildren_DepthFirst(children, i + 1, current,
                                  <<child>> \o to_visit,
                                  DictSet(path_to_root, child,
                                          Append(path_to_root[current],
                                                 child)))
    ELSE VisitChildren_DepthFirst(children, i + 1, current, to_visit,
                                  path_to_root)

\* The for loop over the dependencies of `current`, from the i-th on.
RECURSIVE VisitChildren(_, _, _, _, _)
VisitChildren(children, i, current, to_visit, path_to_root) ==
  IF i > Len(children)
  THEN [to_visit |-> to_visit, path_to_root |-> path_to_root]
  ELSE LET child == children[i] IN
    IF child \notin DOMAIN path_to_root
    THEN VisitChildren(children, i + 1, current,
                       Append(to_visit, child),
                       DictSet(path_to_root, child,
                               Append(path_to_root[current], child)))
    ELSE VisitChildren(children, i + 1, current, to_visit, path_to_root)

\* The while loop.  Reading checkpoint_dependencies of an object whose
\* __init__ did not run raises AttributeError.
RECURSIVE TraversalLoop(_, _, _, _)
TraversalLoop(deps, bfs_sorted, to_visit, path_to_root) ==
  IF to_visit = <<>>
  THEN [exc |-> "none", bfs_sorted |-> bfs_sorted,
        path_to_root |-> path_to_root]
  ELSE LET current == Head(to_visit) IN
    IF current.ref \notin DOMAIN deps
    THEN [exc |-> "AttributeError", bfs_sorted |-> <<>>,
          path_to_root |-> path_to_root]
    ELSE LET r == VisitChildren(deps[current.ref], 1, current,
                                Tail(to_visit), path_to_root)
         IN TraversalLoop(deps, Append(bfs_sorted, current),
                          r.to_visit, r.path_to_root)

breadth_first_checkpointable_traversal(deps, root_checkpointable) ==
  LET root_checkpointable_reference ==
        CheckpointableReference(None, 0, root_checkpointable)
  IN TraversalLoop(deps, <<>>, <<root_checkpointable_reference>>,
                   DictSet(EmptyDict, root_checkpointable_reference, <<>>))

(***************************************************************************)
(* _name_variables                                                         *)
(***************************************************************************)
\* Faulty variant: an unnamed dependency is named after the identity of the object
\* it refers to, not after its position in the dependency list.
PathComponent_ByIdentity(checkpointable) ==
  IF checkpointable.name # None /\ checkpointable.name[1] # <<>>
  THEN checkpointable.name[1]
  ELSE Decimal(checkpointable.ref)

\* checkpointable.name or "%d" % (checkpointable.local_uid,)
PathComponent(checkpointable) ==
  IF checkpointable.name # None /\ checkpointable.name[1] # <<>>
  THEN checkpointable.name[1]
  ELSE Decimal(checkpointable.local_uid)

name_from_path(path) ==
  Join(<<"/">>, [i \in 1..Len(path) |-> PathComponent(path[i])])

VariableName(human_readable_prefix, owned_variable) ==
  IF human_readable_prefix # <<>>
  THEN human_readable_prefix \o <<"/">> \o owned_variable.name
  ELSE owned_variable.name

\* Faulty variant: a variable is named after its position in _owned_variables, as
\* an unnamed dependency is, not after its local name.
RECURSIVE NameOwned_ByPosition(_, _, _, _)
NameOwned_ByPosition(owned_list, j, human_readable_prefix, named_variables) ==
  IF j > Len(owned_list) THEN named_variables
  ELSE NameOwned_ByPosition(
         owned_list, j + 1, human_readable_prefix,
         DictSet(named_variables,
                 IF human_readable_prefix # <<>>
                 THEN human_readable_prefix \o <<"/">> \o Decimal(j - 1)
                 ELSE Decimal(j - 1),
                 owned_list[j].variable))

\* The loop over one object's _owned_variables, from the j-th on.
RECURSIVE NameOwned(_, _, _, _)
NameOwned(owned_list, j, human_readable_prefix, named_variables) ==
  IF j > Len(owned_list) THEN named_variables
  ELSE NameOwned(owned_list, j + 1, human_readable_prefix,
                 DictSet(named_variables,
                         VariableName(human_readable_prefix, owned_list[j]),
                         owned_list[j].variable))

\* The first loop over bfs_sorted, from the i-th reference on.
RECURSIVE GatherNonSlot(_, _, _, _, _)
GatherNonSlot(owned, bfs_sorted, path_to_root, i, named_variables) ==
  IF i > Len(bfs_sorted) THEN named_variables
  ELSE LET checkpointable == bfs_sorted[i] IN
    GatherNonSlot(owned, bfs_sorted, path_to_root, i + 1,
                  NameOwned(owned[checkpointable.ref], 1,
                            name_from_path(path_to_root[checkpointable]),
                            named_variables))

(***************************************************************************)
(* tensorflow.python.training.optimizer.Optimizer: the slots an optimizer  *)
(* holds are pairs <<slot name, variable>>.                                *)
(***************************************************************************)
get_slot_names(slotsmap, opt) == {p[1] : p \in slotsmap[opt]}

get_slot(slotsmap, opt, variable, slot_name) ==
  IF <<slot_name, variable>> \in slotsmap[opt]
  THEN SlotVariable(opt, slot_name, variable)
  ELSE NoVar

\* Faulty variant: the suffix leaves out the path to the optimizer.
SlotSuffix_NoOptimizerPath(path, slot_name) ==
  Join(<<"/">>, <<OPTIMIZER_SLOTS_NAME, slot_name>>)

\* "/".join((_OPTIMIZER_SLOTS_NAME, _name_from_path(path), slot_name))
SlotSuffix(path, slot_name) ==
  Join(<<"/">>, <<OPTIMIZER_SLOTS_NAME, name_from_path(path), slot_name>>)

SlotKey(variable_name, path, slot_name) ==
  variable_name \o <<"/">> \o SlotSuffix(path, slot_name)

\* The two inner loops for one optimizer reference: every write
\* named_variables[variable_name + "/" + suffix] = slot_variable.  For one
\* reference the keys of distinct (variable_name, slot_name) pairs differ
\* (a valid slot name holds no "/"), so the order of slot_names and of
\* non_slot_variables does not change the dictionary that results.
SlotWrites(slotsmap, checkpointable_ref, path, non_slot_variables) ==
  {<<SlotKey(variable_name, path, slot_name),
     get_slot(slotsmap, checkpointable_ref.ref,
              non_slot_variables[variable_name], slot_name)>> :
     <<variable_name, slot_name>> \in
       {q \in (DOMAIN non_slot_variables)
                \X get_slot_names(slotsmap, checkpointable_ref.ref) :
          get_slot(slotsmap, checkpointable_ref.ref,
                   non_slot_variables[q[1]], q[2]) # NoVar}}

DictUpdate(d, writes) ==
  [k \in DOMAIN d \cup {w[1] : w \in writes} |->
     IF \E w \in writes : w[1] = k
     THEN (CHOOSE w \in writes : w[1] = k)[2]
     ELSE d[k]]

\* Faulty variant: a slot name is validated only once a saved variable is found to
\* have a slot of that name.
RECURSIVE GatherSlots_ValidateWhenSaved(_, _, _, _, _, _)
GatherSlots_ValidateWhenSaved(slotsmap, bfs_sorted, path_to_root, i, non_slot_variables, named_variables) ==
  IF i > Len(bfs_sorted)
  THEN [exc |-> "none", named_variables |-> named_variables]
  ELSE LET checkpointable_ref == bfs_sorted[i] IN
    IF checkpointable_ref.ref \notin DOMAIN slotsmap
    THEN GatherSlots_ValidateWhenSaved(slotsmap, bfs_sorted, path_to_root,
                                       i + 1, non_slot_variables,
                                       named_variables)
    ELSE IF \E slot_name \in get_slot_names(slotsmap, checkpointable_ref.ref) :
              /\ ~VALID_LOCAL_NAME(slot_name)
              /\ \E variable_name \in DOMAIN non_slot_variables :
                   get_slot(slotsmap, checkpointable_ref.ref,
                            non_slot_variables[variable_name], slot_name)
                     # NoVar
    THEN [exc |-> "ValueError", named_variables |-> EmptyDict]
    ELSE GatherSlots_ValidateWhenSaved(
           slotsmap, bfs_sorted, path_to_root, i + 1, non_slot_variables,
           DictUpdate(named_variables,
                      SlotWrites(slotsmap, checkpointable_ref,
                                 path_to_root[checkpointable_ref],
                                 non_slot_variables)))

\* The second loop over bfs_sorted, from the i-th reference on.
RECURSIVE GatherSlots(_, _, _, _, _, _)
GatherSlots(slotsmap, bfs_sorted, path_to_root, i, non_slot_variables, named_variables) ==
  IF i > Len(bfs_sorted)
  THEN [exc |-> "none", named_variables |-> named_variables]
  ELSE LET checkpointable_ref == bfs_sorted[i] IN
    IF checkpointable_ref.ref \notin DOMAIN slotsmap
    THEN GatherSlots(slotsmap, bfs_sorted, path_to_root, i + 1,
                     non_slot_variables, named_variables)
    ELSE IF \E slot_name \in get_slot_names(slotsmap, checkpointable_ref.ref) :
              ~VALID_LOCAL_NAME(slot_name)
    THEN [exc |-> "ValueError", named_variables |-> EmptyDict]
    ELSE GatherSlots(slotsmap, bfs_sorted, path_to_root, i + 1,
                     non_slot_variables,
                     DictUpdate(named_variables,
                                SlotWrites(slotsmap, checkpointable_ref,
                                           path_to_root[checkpointable_ref],
                                           non_slot_variables)))

\* _name_variables(root_checkpointable) on the graph (deps, owned, slotsmap)
name_variables_of(deps, owned, slotsmap, root_checkpointable) ==
  LET t == breadth_first_checkpointable_traversal(deps, root_checkpointable)
  IN IF t.exc # "none"
     THEN [exc |-> t.exc, named_variables |-> EmptyDict]
     ELSE LET non_slot_variables ==
                GatherNonSlot(owned, t.bfs_sorted, t.path_to_root, 1,
                              EmptyDict)
          IN GatherSlots(slotsmap, t.bfs_sorted, t.path_to_root, 1,
                         non_slot_variables, non_slot_variables)

name_variables(root_checkpointable) ==
  name_variables_of(checkpoint_dependencies, owned_variables, slots,
                    root_checkpointable)

Traversal(root_checkpointable) ==
  breadth_first_checkpointable_traversal(checkpoint_dependencies,
                                         root_checkpointable)

(***************************************************************************)
(* The calls.                                                              *)
(***************************************************************************)
\* Faulty variant: the name is not looked up in _owned_variable_names.
add_variable_NoDuplicateCheck(self, name, getter_raises) ==
  IF self \notin Objs
  THEN /\ last' = Outcome("add_variable", "AttributeError", NoVar, FALSE)
       /\ UNCHANGED graph
  ELSE IF getter_raises
  THEN /\ last' = Outcome("add_variable", "GetterError", NoVar, TRUE)
       /\ UNCHANGED graph
  ELSE /\ LET new_variable == NewVariable(self, name) IN
            /\ owned_variables' =
                 [owned_variables EXCEPT
                    ![self] = Append(@, OwnedVariable(name, new_variable))]
            /\ owned_variable_names' =
                 [owned_variable_names EXCEPT ![self] = @ \cup {name}]
            /\ last' = Outcome("add_variable", "none", new_variable, TRUE)
       /\ UNCHANGED <<checkpoint_dependencies, dependency_names, slots>>

\* self.add_variable(name, ...) with a getter that returns a new variable
\* or raises.
add_variable(self, name, getter_raises) ==
  IF self \notin Objs
  THEN /\ last' = Outcome("add_variable", "AttributeError", NoVar, FALSE)
       /\ UNCHANGED graph
  ELSE IF name \in owned_variable_names[self]
  THEN /\ last' = Outcome("add_variable", "ValueError", NoVar, FALSE)
       /\ UNCHANGED graph
  ELSE IF getter_raises
  THEN /\ last' = Outcome("add_variable", "GetterError", NoVar, TRUE)
       /\ UNCHANGED graph
  ELSE /\ LET new_variable == NewVariable(self, name) IN
            /\ owned_variables' =
                 [owned_variables EXCEPT
                    ![self] = Append(@, OwnedVariable(name, new_variable))]
            /\ owned_variable_names' =
                 [owned_variable_names EXCEPT ![self] = @ \cup {name}]
            /\ last' = Outcome("add_variable", "none", new_variable, TRUE)
       /\ UNCHANGED <<checkpoint_dependencies, dependency_names, slots>>

\* Faulty variant: the name is not looked up in _dependency_names.
track_checkpointable_NoDuplicateCheck(self, checkpointable, name) ==
  IF self \notin Objs
  THEN /\ last' = Outcome("track_checkpointable", "RuntimeError", NoVar, FALSE)
       /\ UNCHANGED graph
  ELSE IF checkpointable = NotCk
  THEN /\ last' = Outcome("track_checkpointable", "TypeError", NoVar, FALSE)
       /\ UNCHANGED graph
  ELSE IF name # None /\ ~VALID_LOCAL_NAME(name[1])
  THEN /\ last' = Outcome("track_checkpointable", "ValueError", NoVar, FALSE)
       /\ UNCHANGED graph
  ELSE /\ dependency_names' =
            [dependency_names EXCEPT
               ![self] = IF name # None THEN @ \cup {name[1]} ELSE @]
       /\ checkpoint_dependencies' =
            [checkpoint_dependencies EXCEPT
               ![self] = Append(@, CheckpointableReference(
                                      name, Len(@), checkpointable))]
       /\ last' = Outcome("track_checkpointable", "none", checkpointable,
                           FALSE)
       /\ UNCHANGED <<owned_variables, owned_variable_names, slots>>

\* self.track_checkpointable(checkpointable, name)
track_checkpointable(self, checkpointable, name) ==
  IF self \notin Objs
  THEN /\ last' = Outcome("track_checkpointable", "RuntimeError", NoVar, FALSE)
       /\ UNCHANGED graph
  ELSE IF checkpointable = NotCk
  THEN /\ last' = Outcome("track_checkpointable", "TypeError", NoVar, FALSE)
       /\ UNCHANGED graph
  ELSE IF name # None /\ ~VALID_LOCAL_NAME(name[1])
  THEN /\ last' = Outcome("track_checkpointable", "ValueError", NoVar, FALSE)
       /\ UNCHANGED graph
  ELSE IF name # None /\ name[1] \in dependency_names[self]
  THEN /\ last' = Outcome("track_checkpointable", "ValueError", NoVar, FALSE)
       /\ UNCHANGED graph
  ELSE /\ dependency_names' =
            [dependency_names EXCEPT
               ![self] = IF name # None THEN @ \cup {name[1]} ELSE @]
       /\ checkpoint_dependencies' =
            [checkpoint_dependencies EXCEPT
               ![self] = Append(@, CheckpointableReference(
                                      name, Len(@), checkpointable))]
       /\ last' = Outcome("track_checkpointable", "none", checkpointable,
                           FALSE)
       /\ UNCHANGED <<owned_variables, owned_variable_names, slots>>

\* An optimizer creates the slot slot_name for a variable.
create_slot(opt, slot_name, variable) ==
  /\ <<slot_name, variable>> \notin slots[opt]
  /\ slots' = [slots EXCEPT ![opt] = @ \cup {<<slot_name, variable>>}]
  /\ last' = Outcome("create_slot", "none",
                     SlotVariable(opt, slot_name, variable), FALSE)
  /\ UNCHANGED <<checkpoint_dependencies, dependency_names, owned_variables,
                 owned_variable_names>>

\* _name_variables(root_checkpointable)
call_name_variables(root_checkpointable) ==
  /\ LET r == name_variables(root_checkpointable) IN
       last' = Outcome("_name_variables", r.exc,
                       [root |-> root_checkpointable,
                        named_variables |-> r.named_variables], FALSE)
  /\ UNCHANGED graph

\* The variables that exist: those some object owns.
OwnedVariableObjects ==
  {owned_variables[o][j].variable : <<o, j>> \in
     {p \in Objs \X (1..Size) : p[2] <= Len(owned_variables[p[1]])}}

\* A call that makes the graph grow is taken only below the bound.
Below(bound) == graph' # graph => Size < bound

(***************************************************************************)
(* Spec: every call, with every input.                                     *)
(***************************************************************************)
AddVariableStep ==
  \E self \in Objs \cup {Uninit}, name \in VarNameInputs,
     getter_raises \in BOOLEAN :
    /\ add_variable(self, name, getter_raises) /\ Below(MaxSize)
    /\ UNCHANGED <<frame, other_modules>>

TrackCheckpointableStep ==
  \E self \in Objs \cup {Uninit},
     checkpointable \in Objs \cup {Uninit, NotCk},
     name \in DepNameInputs :
    /\ track_checkpointable(self, checkpointable, name) /\ Below(MaxSize)
    /\ UNCHANGED <<frame, other_modules>>

CreateSlotStep ==
  \E opt \in Optimizers, slot_name \in SlotNameInputs,
     variable \in OwnedVariableObjects :
    /\ create_slot(opt, slot_name, variable) /\ Below(MaxSize)
    /\ UNCHANGED <<frame, other_modules>>

NameVariablesStep ==
  \E root_checkpointable \in Objs \cup {Uninit} :
    /\ call_name_variables(root_checkpointable)
    /\ UNCHANGED <<frame, other_modules>>

Next ==
  \/ AddVariableStep
  \/ TrackCheckpointableStep
  \/ CreateSlotStep
  \/ NameVariablesStep

Spec == Init /\ [][Next]_vars

(***************************************************************************)
(* SpecPositional: initialised objects only, every dependency declared     *)
(* without a name, every variable called "v".  No two visited objects can  *)
(* then produce the same key.                                              *)
(***************************************************************************)
MaxPositional == 5

PositionalAddVariable ==
  \E self \in Objs :
    /\ add_variable(self, <<"v">>, FALSE) /\ Below(MaxPositional)
    /\ UNCHANGED <<frame, other_modules>>

PositionalTrack ==
  \E self \in Objs, checkpointable \in Objs :
    /\ track_checkpointable(self, checkpointable, None) /\ Below(MaxPositional)
    /\ UNCHANGED <<frame, other_modules>>

PositionalNameVariables ==
  \E root_checkpointable \in Objs :
    /\ call_name_variables(root_checkpointable)
    /\ UNCHANGED <<frame, other_modules>>

NextPositional ==
  \/ PositionalAddVariable
  \/ PositionalTrack
  \/ PositionalNameVariables

SpecPositional == Init /\ [][NextPositional]_vars

(***************************************************************************)
(* SpecLocal: one optimizer that is its own root, its variables and slots. *)
(***************************************************************************)
MaxLocal == 4

LocalAddVariable ==
  \E self \in Optimizers, name \in VarNameInputs :
    /\ add_variable(self, name, FALSE) /\ Below(MaxLocal)
    /\ UNCHANGED <<frame, other_modules>>

LocalCreateSlot ==
  \E opt \in Optimizers, variable \in OwnedVariableObjects :
    /\ create_slot(opt, <<"m">>, variable) /\ Below(MaxLocal)
    /\ UNCHANGED <<frame, other_modules>>

LocalNameVariables ==
  \E root_checkpointable \in Optimizers :
    /\ call_name_variables(root_checkpointable)
    /\ UNCHANGED <<frame, other_modules>>

NextLocal ==
  \/ LocalAddVariable
  \/ LocalCreateSlot
  \/ LocalNameVariables

SpecLocal == Init /\ [][NextLocal]_vars

(***************************************************************************)
(* SpecTraversal: dependencies are declared, then one call of              *)
(* _breadth_first_checkpointable_traversal runs, one iteration of its      *)
(* while loop at a time.  The graph does not change while the call runs.   *)
(***************************************************************************)
MaxTraversal == 3

TraversalNameInputs == {None, Some(<<"a">>)}

TraversalTrack ==
  \E self \in Objs, checkpointable \in Objs \cup {Uninit},
     name \in TraversalNameInputs :
    /\ traversal_call.pc = "idle"
    /\ track_checkpointable(self, checkpointable, name)
    /\ Below(MaxTraversal)
    /\ UNCHANGED <<frame, other_modules>>

\* The statements before the loop.
TraversalEnter ==
  \E root_checkpointable \in Objs \cup {Uninit} :
    LET root_checkpointable_reference ==
          CheckpointableReference(None, 0, root_checkpointable)
    IN /\ traversal_call.pc = "idle"
       /\ traversal_call' =
            TraversalCall("while", root_checkpointable_reference, <<>>,
                          <<root_checkpointable_reference>>,
                          DictSet(EmptyDict, root_checkpointable_reference,
                                  <<>>))
       /\ UNCHANGED <<graph, last, other_modules>>

\* One iteration of the while loop: popleft, append, the for loop.
TraversalIteration ==
  /\ traversal_call.pc = "while"
  /\ traversal_call.to_visit # <<>>
  /\ LET current_checkpointable == Head(traversal_call.to_visit) IN
       IF current_checkpointable.ref \notin DOMAIN checkpoint_dependencies
       THEN traversal_call' =
              [traversal_call EXCEPT !.pc = "raised",
                                     !.to_visit = Tail(@),
                                     !.bfs_sorted =
                                        Append(@, current_checkpointable)]
       ELSE LET r == VisitChildren(
                       checkpoint_dependencies[current_checkpointable.ref],
                       1, current_checkpointable,
                       Tail(traversal_call.to_visit),
                       traversal_call.path_to_root)
            IN traversal_call' =
                 [traversal_call EXCEPT !.to_visit = r.to_visit,
                                        !.path_to_root = r.path_to_root,
                                        !.bfs_sorted =
                                           Append(@, current_checkpointable)]
  /\ UNCHANGED <<graph, last, other_modules>>

\* The loop test fails and the function returns.
TraversalReturn ==
  /\ traversal_call.pc = "while"
  /\ traversal_call.to_visit = <<>>
  /\ traversal_call' = [traversal_call EXCEPT !.pc = "returned"]
  /\ UNCHANGED <<graph, last, other_modules>>

NextTraversal ==
  \/ TraversalTrack
  \/ TraversalEnter
  \/ TraversalIteration
  \/ TraversalReturn

\* The call is sequential code: once entered, it keeps running.
SpecTraversal ==
  /\ Init
  /\ [][NextTraversal]_vars
  /\ WF_vars(TraversalIteration)
  /\ WF_vars(TraversalReturn)

(***************************************************************************)
(* tensorflow/python/estimator/run_config.py                               *)
(***************************************************************************)
\* The properties of a RunConfig instance: name -> value.
Properties(heap, config) ==
  [cluster_spec |-> PyNone,
   evaluation_master |-> PyStr(""),
   is_chief |-> PyBool(TRUE),
   master |-> PyStr(""),
   num_ps_replicas |-> PyInt(0),
   num_worker_replicas |-> PyInt(1),
   task_id |-> PyInt(0),
   task_type |-> PyStr("worker"),
   tf_random_seed |-> PyInt(1),
   save_summary_steps |-> PyInt(100),
   save_checkpoints_secs |-> PyInt(600),
   session_config |-> PyNone,
   save_checkpoints_steps |-> PyNone,
   keep_checkpoint_max |-> PyInt(5),
   keep_checkpoint_every_n_hours |-> PyInt(10000),
   model_dir |-> heap[config]["_model_dir"]]

PropertyNames == DOMAIN Properties(<<RunConfigInit>>, 1)

\* Faulty variant: no copy is made, the instance itself is handed on.
deepcopy_SameObject(heap, self) == [heap |-> heap, ref |-> self]

\* copy.deepcopy(self): a new instance whose __dict__ holds copies of the
\* attribute values.
deepcopy(heap, self) ==
  [heap |-> Append(heap, heap[self]), ref |-> Len(heap) + 1]

\* setattr(obj, attr, value)
setattr(heap, obj, attr, value) ==
  [heap EXCEPT ![obj] = DictSet(@, attr, value)]

\* The for loop of _replace over the keyword arguments, from the i-th on.
RECURSIVE ReplaceLoop(_, _, _, _, _)
ReplaceLoop(heap, new_copy, allowed_properties_list, kwargs, i) ==
  IF i > Len(kwargs)
  THEN [exc |-> "none", heap |-> heap]
  ELSE LET key == kwargs[i][1]
           new_value == kwargs[i][2]
       IN IF key \in allowed_properties_list
          THEN ReplaceLoop(setattr(heap, new_copy, "_" \o key, new_value),
                           new_copy, allowed_properties_list, kwargs, i + 1)
          ELSE [exc |-> "ValueError", heap |-> heap]

Keywords(kwargs) == {kwargs[i][1] : i \in 1..Len(kwargs)}

\* RunConfig._replace(self, allowed_properties_list, **kwargs): the
\* exception it raises ("none" if it returns), the instances after the call
\* and the instance it returns.  A keyword named like a parameter cannot be
\* bound: the call raises TypeError.  The copy of a call that raises is
\* garbage.
RunConfig_replace(heap, self, allowed_properties_list, kwargs) ==
  IF {"self", "allowed_properties_list"} \cap Keywords(kwargs) # {}
  THEN [exc |-> "TypeError", heap |-> heap, ret |-> 0]
  ELSE LET c == deepcopy(heap, self)
           r == ReplaceLoop(c.heap, c.ref, allowed_properties_list, kwargs, 1)
       IN IF r.exc = "none"
          THEN [exc |-> "none", heap |-> r.heap, ret |-> c.ref]
          ELSE [exc |-> r.exc,
                heap |-> SubSeq(r.heap, 1, Len(heap)), ret |-> 0]

\* RunConfig.replace(self, **kwargs)
replace(self, kwargs) ==
  LET r == IF "self" \in Keywords(kwargs)
           THEN [exc |-> "TypeError", heap |-> run_configs, ret |-> 0]
           ELSE RunConfig_replace(run_configs, self, {"model_dir"}, kwargs)
  IN /\ run_configs' = r.heap
     /\ replace_call' = ReplaceCall(self, kwargs, r.exc, r.ret)

\* RunConfig()
RunConfig ==
  /\ run_configs' = Append(run_configs, RunConfigInit)
  /\ replace_call' = NoReplace

(***************************************************************************)
(* SpecRunConfig: instances are made and replace is called on them.        *)
(***************************************************************************)
MaxConfigs == 3

MaxKwargs == 2

KeywordInputs ==
  {"model_dir", "master", "foo", "allowed_properties_list", "self"}

ModelDirInputs == {PyStr("a"), PyStr("b")}

\* A keyword with a value: any of ModelDirInputs for model_dir, one value
\* for the other keywords.
KeywordArguments ==
  {p \in KeywordInputs \X ModelDirInputs :
     p[1] # "model_dir" => p[2] = PyStr("a")}

\* The keyword arguments: at most MaxKwargs of them, no keyword twice, in
\* any order.
KwargsInputs ==
  {kw \in UNION {[1..n -> KeywordArguments] : n \in 0..MaxKwargs} :
     \A i, j \in 1..Len(kw) : i # j => kw[i][1] # kw[j][1]}

RunConfigStep ==
  /\ Len(run_configs) < MaxConfigs
  /\ RunConfig
  /\ UNCHANGED <<checkpointable_module, generate_examples_module>>

ReplaceStep ==
  \E self \in 1..Len(run_configs), kwargs \in KwargsInputs :
    /\ replace(self, kwargs)
    /\ Len(run_configs') <= MaxConfigs
    /\ UNCHANGED <<checkpointable_module, generate_examples_module>>

NextRunConfig ==
  \/ RunConfigStep
  \/ ReplaceStep

SpecRunConfig == Init /\ [][NextRunConfig]_vars

(***************************************************************************)
(* tensorflow/contrib/lite/testing/generate_examples.py                    *)
(***************************************************************************)
\* "." of a regular expression: any character (no label holds a newline).
Wild == "<any>"

\* A pattern <head>.*<tail>, <tail> one of several alternatives.
Pattern(head, tails, bug_number) ==
  [head |-> head, tails |-> tails, bug_number |-> bug_number]

\* The patterns of KNOWN_BUGS; the "." of transpose_.=True is Wild.
KNOWN_BUGS ==
  {Pattern(<<"r", "e", "l", "u">>,
           {<<"i", "n", "p", "u", "t", "_", "s", "h", "a", "p",
              "e", "=", "[", "]">>},
           "67587484"),
   Pattern(<<"s", "i", "g", "m", "o", "i", "d">>,
           {<<"i", "n", "p", "u", "t", "_", "s", "h", "a", "p",
              "e", "=", "[", "]">>},
           "67645668"),
   Pattern(<<"c", "o", "n", "c", "a", "t">>,
           {<<"n", "u", "m", "_", "t", "e", "n", "s", "o", "r",
              "s", "=", "1">>},
           "67378344"),
   Pattern(<<"f", "u", "l", "l", "y", "_", "c", "o", "n", "n", "e",
             "c", "t", "e", "d">>,
           {<<"t", "r", "a", "n", "s", "p", "o", "s", "e", "_",
              Wild, "=", "T", "r", "u", "e">>},
           "67586970"),
   Pattern(<<"s", "o", "f", "t", "m", "a", "x">>,
           {<<"d", "i", "m", "=", "0">>},
           "67749831"),
   Pattern(<<"s", "o", "f", "t", "m", "a", "x">>,
           {<<"i", "n", "p", "u", "t", "_", "s", "h", "a", "p",
              "e", "=", "[", "1", ",", "3", ",", "4", ",", "3",
              "]">>},
           "67749831"),
   Pattern(<<"s", "p", "a", "c", "e", "_", "t", "o", "_", "d", "e",
             "p", "t", "h">>,
           {<<"f", "l", "o", "a", "t", "1", "6">>,
            <<"i", "n", "t", "3", "2">>,
            <<"u", "i", "n", "t", "8">>,
            <<"i", "n", "t", "6", "4">>},
           "68018134"),
   Pattern(<<"b", "a", "t", "c", "h", "_", "t", "o", "_", "s", "p",
             "a", "c", "e", "_", "n", "d">>,
           {<<"c", "r", "o", "p", "s", "=", "[", "[", "1", ",",
              "1", "]", ",", "[", "1", ",", "1", "]", "]">>},
           "70594634"),
   Pattern(<<"b", "a", "t", "c", "h", "_", "t", "o", "_", "s", "p",
             "a", "c", "e", "_", "n", "d">>,
           {<<"i", "n", "p", "u", "t", "_", "s", "h", "a", "p",
              "e", "=", "[", "8", ",", "2", ",", "2", ",", "2",
              ",", "1", ",", "1", "]">>},
           "70594733")}

\* The atoms match the characters of s from the i-th on.
MatchesAt(atoms, s, i) ==
  /\ i + Len(atoms) - 1 <= Len(s)
  /\ \A k \in 1..Len(atoms) : atoms[k] = Wild \/ atoms[k] = s[i + k - 1]

\* re.search(pattern, s)
re_search(pattern, s) ==
  \E i \in 1..Len(s) :
    /\ MatchesAt(pattern.head, s, i)
    /\ \E t \in pattern.tails :
         \E j \in (i + Len(pattern.head))..Len(s) : MatchesAt(t, s, j)

\* s.replace(old, new)
RECURSIVE str_replace(_, _, _)
str_replace(s, old, new) ==
  IF s = <<>> THEN <<>>
  ELSE IF MatchesAt(old, s, 1)
  THEN new \o str_replace(SubSeq(s, Len(old) + 1, Len(s)), old, new)
  ELSE <<Head(s)>> \o str_replace(Tail(s), old, new)

\* The parameter names there are, in sorted order.
SortedKeys ==
  << <<"d", "t", "y", "p", "e">>,
    <<"i", "n", "p", "u", "t", "_", "s", "h", "a", "p", "e">> >>

\* sorted(pairs) of <<key, value>> pairs with distinct keys, from the r-th
\* key of SortedKeys on.
RECURSIVE sorted(_, _)
sorted(pairs, r) ==
  IF r > Len(SortedKeys) THEN <<>>
  ELSE SelectSeq(pairs, LAMBDA z : z[1] = SortedKeys[r])
       \o sorted(pairs, r + 1)

\* zip(keys, curr)
zip(keys, curr) == [k \in 1..Len(keys) |-> <<keys[k], curr[k]>>]

\* itertools.product(*lists), the last list running fastest
RECURSIVE product(_)
product(lists) ==
  IF lists = <<>> THEN << <<>> >>
  ELSE LET rest == product(Tail(lists))
           first == Head(lists)
       IN [k \in 1..(Len(first) * Len(rest)) |->
             <<first[((k - 1) \div Len(rest)) + 1]>>
             \o rest[((k - 1) % Len(rest)) + 1]]

\* The label of one combination (lines 362-365).  A value is held as its
\* repr.
Label(zip_path, keys, curr) ==
  LET formatted == [k \in 1..Len(keys) |->
                      LET z == sorted(zip(keys, curr), 1)[k]
                      IN z[1] \o <<"=">> \o z[2]]
      label == str_replace(zip_path, <<".", "z", "i", "p">>, <<>>)
               \o str_replace(Join(<<",">>, formatted), <<" ">>, <<>>)
  IN IF label[1] = "/" THEN Tail(label) ELSE label

\* The combinations of the two for loops (lines 359-361), in order: each
\* <<keys, curr>>.
RECURSIVE Combinations(_)
Combinations(test_parameters) ==
  IF test_parameters = <<>> THEN <<>>
  ELSE LET parameters == Head(test_parameters)
           keys == [k \in 1..Len(parameters) |-> parameters[k][1]]
           values == [k \in 1..Len(parameters) |-> parameters[k][2]]
           currs == product(values)
       IN [n \in 1..Len(currs) |-> <<keys, currs[n]>>]
          \o Combinations(Tail(test_parameters))

\* What the callbacks and toco do for one combination: make_graph and
\* make_test_inputs return or raise one of the exceptions build_example
\* catches, toco_convert returns None, an empty model or a model.
CallbackOutcome(make_graph, make_test_inputs, toco_convert) ==
  [make_graph |-> make_graph, make_test_inputs |-> make_test_inputs,
   toco_convert |-> toco_convert]

\* if tflite_model_binary:
Truthy(value) == value # PyNone /\ value # PyStr("")

\* Faulty variant: the test cases are not written, which leaves two files per
\* converted combination.
WriteExample_NoTestCases(label) ==
  <<label \o <<".", "b", "i", "n">>,
    label \o <<".", "i", "n", "p", "u", "t", "s">> >>

\* The names of the entries written for a model that is not empty
\* (lines 427-439).
WriteExample(label) ==
  <<label \o <<".", "b", "i", "n">>,
    label \o <<".", "i", "n", "p", "u", "t", "s">>,
    label \o <<"_", "t", "e", "s", "t", "s", ".", "t", "x", "t">> >>

\* build_example(label, param_dict): the model, the report, the names of
\* the entries it writes to the archive and what it appends to
\* zip_manifest.
build_example(flags, label, outcome) ==
  IF outcome.make_graph = "raises" \/ outcome.make_test_inputs = "raises"
  THEN [tflite_model_binary |-> PyNone,
        report |-> [toco |-> "NOTRUN", tf |-> "FAILED"],
        written |-> <<>>, manifest |-> <<>>]
  ELSE LET tflite_model_binary == outcome.toco_convert
           graphdef == IF flags.save_graphdefs
                       THEN <<label \o <<".", "p", "b">> >>
                       ELSE <<>>
       IN [tflite_model_binary |-> tflite_model_binary,
           report |-> [toco |-> IF tflite_model_binary # PyNone
                                THEN "SUCCESS" ELSE "FAILED",
                       tf |-> "SUCCESS"],
           written |-> IF Truthy(tflite_model_binary)
                       THEN graphdef \o WriteExample(label)
                       ELSE graphdef,
           manifest |-> IF Truthy(tflite_model_binary)
                        THEN <<label \o <<"\n">> >>
                        ELSE <<>>]

\* Faulty variant: a known bug is ignored whatever --known_bugs_are_errors
\* says.
ignore_error_FlagNotRead(flags, label) ==
  \E pattern \in KNOWN_BUGS : re_search(pattern, label)

\* ignore_error after lines 448-453
ignore_error(flags, label) ==
  /\ ~flags.known_bugs_are_errors
  /\ \E pattern \in KNOWN_BUGS : re_search(pattern, label)

\* FLAGS, unparsed = parser.parse_known_args()
parse_known_args(flags) ==
  /\ zip_call.pc = "idle"
  /\ FLAGS' = flags
  /\ UNCHANGED zip_call

\* make_zip_of_tests up to the loops (lines 355-358)
make_zip_of_tests(zip_path, test_parameters) ==
  /\ zip_call.pc = "idle"
  /\ zip_call' = ZipCall("for", zip_path, test_parameters,
                         Combinations(test_parameters), <<>>, <<>>, <<>>, 0)
  /\ UNCHANGED FLAGS

\* One pass of the inner loop (lines 362-459)
zip_combination(outcome) ==
  /\ zip_call.pc = "for"
  /\ zip_call.todo # <<>>
  /\ LET keys == Head(zip_call.todo)[1]
         curr == Head(zip_call.todo)[2]
         label == Label(zip_call.zip_path, keys, curr)
         param_dict == zip(keys, curr)
         built == build_example(FLAGS, label, outcome)
         report == built.report
         counted == report.toco = "FAILED" /\ ~ignore_error(FLAGS, label)
     IN zip_call' =
          [zip_call EXCEPT
             !.todo = Tail(@),
             !.tflite_model_binary = built.tflite_model_binary,
             !.archive = @ \o built.written,
             !.zip_manifest = @ \o built.manifest,
             !.toco_errors = IF counted THEN @ + 1 ELSE @,
             !.convert_report = Append(@, <<param_dict, report>>)]
  /\ UNCHANGED FLAGS

\* After the loops (lines 460-481)
zip_finish ==
  /\ zip_call.pc = "for"
  /\ zip_call.todo = <<>>
  /\ zip_call' =
       [zip_call EXCEPT
          !.archive =
             @ \o << <<"r", "e", "p", "o", "r", "t", ".", "h", "t", "m", "l">>,
                     <<"m", "a", "n", "i", "f", "e", "s", "t", ".", "t", "x",
                       "t">> >>,
          !.pc = IF ~FLAGS.ignore_toco_errors /\ zip_call.toco_errors > 0
                 THEN "raised" ELSE "returned"]
  /\ UNCHANGED FLAGS

(***************************************************************************)
(* SpecZip: the flags are parsed, then make_zip_of_tests runs, one         *)
(* combination at a time.                                                  *)
(***************************************************************************)
MaxCombinations == 3

\* Values are held as their repr: [], [1, 3], tf.float32.
ParametersInputs ==
  {<< << <<"i", "n", "p", "u", "t", "_", "s", "h", "a", "p", "e">>,
        << <<"[", "]">>, <<"[", "1", ",", " ", "3", "]">> >> >> >>,
   << << <<"i", "n", "p", "u", "t", "_", "s", "h", "a", "p", "e">>,
        << <<"[", "]">> >> >>,
      << <<"d", "t", "y", "p", "e">>,
        << <<"t", "f", ".", "f", "l", "o", "a", "t", "3", "2">> >> >> >>}

TestParametersInputs ==
  {tp \in UNION {[1..n -> ParametersInputs] : n \in 0..MaxCombinations} :
     Len(Combinations(tp)) <= MaxCombinations}

ZipPathInputs ==
  {<<"/", "o", "u", "t", "/", "r", "e", "l", "u", ".", "z", "i", "p">>,
   <<"a", "d", "d", ".", "z", "i", "p">>}

CallbackOutcomes ==
  {CallbackOutcome(g, i, t) :
     g \in {"returns", "raises"}, i \in {"returns", "raises"},
     t \in {PyNone, PyStr(""), PyStr("model")}}

ParseArgsStep ==
  \E k \in BOOLEAN, i \in BOOLEAN, s \in BOOLEAN :
    /\ parse_known_args(Flags(k, i, s))
    /\ UNCHANGED <<checkpointable_module, run_config_module>>

MakeZipStep ==
  \E zip_path \in ZipPathInputs, test_parameters \in TestParametersInputs :
    /\ make_zip_of_tests(zip_path, test_parameters)
    /\ UNCHANGED <<checkpointable_module, run_config_module>>

ZipCombinationStep ==
  \E outcome \in CallbackOutcomes :
    /\ zip_combination(outcome)
    /\ UNCHANGED <<checkpointable_module, run_config_module>>

ZipFinishStep ==
  /\ zip_finish
  /\ UNCHANGED <<checkpointable_module, run_config_module>>

NextZip ==
  \/ ParseArgsStep
  \/ MakeZipStep
  \/ ZipCombinationStep
  \/ ZipFinishStep

SpecZip == Init /\ [][NextZip]_vars

(***************************************************************************)
(* Notions the claims are stated in.                                       *)
(***************************************************************************)
\* The objects a root may be.
Roots == Objs

\* The key the naming scheme describes for a variable called `name` owned
\* by the object a path of references leads to: one component per edge (the
\* name it was declared with, else its decimal local_uid), then the name.
EdgeComponent(e) == IF e.name # None THEN e.name[1] ELSE Decimal(e.local_uid)

PathKey(path, name) ==
  Join(<<"/">>, [i \in 1..(Len(path) + 1) |->
                   IF i <= Len(path) THEN EdgeComponent(path[i]) ELSE name])

\* The objects within n dependency edges of root.
RECURSIVE Within(_, _)
Within(root, n) ==
  IF n = 0 THEN {root}
  ELSE LET W == Within(root, n - 1) IN
    W \cup {checkpoint_dependencies[o][i].ref : <<o, i>> \in
              {p \in (W \cap Objs) \X (1..Size) :
                 p[2] <= Len(checkpoint_dependencies[p[1]])}}

Reachable(root) == Within(root, Size)

\* The least number of dependency edges from root to o.
MinDist(root, o) == CHOOSE n \in 0..Size :
  /\ o \in Within(root, n)
  /\ \A m \in 0..(n - 1) : o \notin Within(root, m)

IsSlotVariable(v) == v.kind = "slot"

\* The positions <<i, j>>: the i-th reference of bfs_sorted and the j-th
\* variable its object owns.
OwnedAt(t) ==
  {p \in (1..Len(t.bfs_sorted)) \X (1..Size) :
     p[2] <= Len(owned_variables[t.bfs_sorted[p[1]].ref])}

(***************************************************************************)
(* C1: for every dependency graph in which _name_variables(root) returns,  *)
(* every variable owned by a visited object is keyed by its path: the      *)
(* result binds, for each reference the traversal recorded and each        *)
(* variable its object owns, the "/"-join of the path's components and the *)
(* variable's local name (the bare local name for the root) to that        *)
(* variable.                                                               *)
(***************************************************************************)
C1_EachVariableKeyedByPath ==
  \A root \in Roots :
    LET t == Traversal(root)
        r == name_variables(root)
    IN r.exc = "none" =>
         \A p \in OwnedAt(t) :
           LET ref == t.bfs_sorted[p[1]]
               ov == owned_variables[ref.ref][p[2]]
               key == PathKey(t.path_to_root[ref], ov.name)
           IN /\ key \in DOMAIN r.named_variables
              /\ r.named_variables[key] = ov.variable

(***************************************************************************)
(* C2: every non-slot key of the result has as many path components before *)
(* the variable's local name as the least number of dependency edges from  *)
(* root to the object that owns the variable.                              *)
(***************************************************************************)
C2_KeysFollowShortestPath ==
  \A root \in Roots :
    LET t == Traversal(root)
        r == name_variables(root)
    IN r.exc = "none" =>
         \A p \in OwnedAt(t) :
           LET ref == t.bfs_sorted[p[1]]
               ov == owned_variables[ref.ref][p[2]]
               key == PathKey(t.path_to_root[ref], ov.name)
           IN (key \in DOMAIN r.named_variables
               /\ r.named_variables[key] = ov.variable)
              => Len(t.path_to_root[ref]) = MinDist(root, ref.ref)

KeysKept(before, after) ==
  before.exc = "none" =>
    /\ after.exc = "none"
    /\ \A k \in DOMAIN before.named_variables :
         /\ k \in DOMAIN after.named_variables
         /\ after.named_variables[k] = before.named_variables[k]

\* checkpoint_dependencies before the last track_checkpointable call on self
BeforeLastTrack(self) ==
  [checkpoint_dependencies EXCEPT ![self] = SubSeq(@, 1, Len(@) - 1)]

(***************************************************************************)
(* C4: declaring a new dependency after the existing ones keeps every key. *)
(* The graph before the most recent track_checkpointable call on an object *)
(* is the graph without the last entry of that object's dependency list;   *)
(* every key _name_variables(root) mapped to a variable in that graph is   *)
(* mapped to the same variable now.                                        *)
(***************************************************************************)
C4_NewDependenciesKeepKeys ==
  \A self \in Objs :
    checkpoint_dependencies[self] # <<>> =>
      \A root \in Roots :
        KeysKept(name_variables_of(BeforeLastTrack(self), owned_variables,
                                   slots, root),
                 name_variables(root))

SlotKeyForm(t, k, slot_variable) ==
  \E i \in 1..Len(t.bfs_sorted), q \in 1..Len(t.bfs_sorted) :
    LET opt_ref == t.bfs_sorted[i]
        owner_ref == t.bfs_sorted[q]
    IN /\ opt_ref.ref \in Optimizers
       /\ opt_ref.ref = slot_variable.opt
       /\ slot_variable.slot \in get_slot_names(slots, opt_ref.ref)
       /\ owner_ref.ref = slot_variable.of.owner
       /\ LET variable_key ==
                 PathKey(t.path_to_root[owner_ref], slot_variable.of.name)
              non_slot == GatherNonSlot(owned_variables, t.bfs_sorted,
                                        t.path_to_root, 1, EmptyDict)
          IN /\ variable_key \in DOMAIN non_slot
             /\ non_slot[variable_key] = slot_variable.of
       /\ k = Join(<<"/">>,
                   <<PathKey(t.path_to_root[owner_ref], slot_variable.of.name),
                     OPTIMIZER_SLOTS_NAME,
                     Join(<<"/">>,
                          [n \in 1..Len(t.path_to_root[opt_ref]) |->
                             EdgeComponent(t.path_to_root[opt_ref][n])]),
                     slot_variable.slot>>)

(***************************************************************************)
(* C5: every key of the result that is bound to a slot variable is         *)
(* <variable key>/_OPTIMIZER_SLOT/<optimizer path>/<slot name>: the        *)
(* variable key is the key the first loop gave to the variable slotted for *)
(* (the join of its path and its local name), the optimizer               *)
(* path is the path the traversal recorded for a reference to the          *)
(* optimizer that holds the slot, and the slot name is one of that         *)
(* optimizer's get_slot_names().                                           *)
(***************************************************************************)
C5_SlotKeyForm ==
  \A root \in Roots :
    LET t == Traversal(root)
        r == name_variables(root)
    IN r.exc = "none" =>
         \A k \in DOMAIN r.named_variables :
           IsSlotVariable(r.named_variables[k]) =>
             SlotKeyForm(t, k, r.named_variables[k])

\* Some result holds a slot key of an optimizer that is not the root.
C5_Witness ==
  \E root \in Roots :
    LET r == name_variables(root) IN
      /\ r.exc = "none"
      /\ \E k \in DOMAIN r.named_variables :
           /\ IsSlotVariable(r.named_variables[k])
           /\ r.named_variables[k].opt # root

IsPrefixOf(a, b) == Len(a) <= Len(b) /\ SubSeq(b, 1, Len(a)) = a

(***************************************************************************)
(* C6: for every key of the result bound to a slot variable, the part of   *)
(* the key before "/_OPTIMIZER_SLOT/" is a key of the result bound to a    *)
(* non-slot variable v, and the slot key is bound to the optimizer's       *)
(* get_slot(v, slot name), which is not None.                              *)
(***************************************************************************)
C6_SlotOnlyWithItsVariable ==
  \A root \in Roots :
    LET r == name_variables(root) IN
      r.exc = "none" =>
        \A k \in DOMAIN r.named_variables :
          IsSlotVariable(r.named_variables[k]) =>
            \E vk \in DOMAIN r.named_variables :
              /\ IsPrefixOf(vk \o <<"/">> \o OPTIMIZER_SLOTS_NAME \o <<"/">>, k)
              /\ ~IsSlotVariable(r.named_variables[vk])
              /\ r.named_variables[k] =
                   get_slot(slots, r.named_variables[k].opt,
                            r.named_variables[vk], r.named_variables[k].slot)
              /\ r.named_variables[k] # NoVar

OwnedNames(o) == {owned_variables[o][j].name : j \in 1..Len(owned_variables[o])}

UniqueOwnedNames ==
  \A o \in Objs :
    /\ \A i, j \in 1..Len(owned_variables[o]) :
         owned_variables[o][i].name = owned_variables[o][j].name => i = j
    /\ owned_variable_names[o] = OwnedNames(o)

AddVariableRejectsDuplicate ==
  \A self \in Objs, name \in VarNameInputs, getter_raises \in BOOLEAN :
    add_variable(self, name, getter_raises) =>
      /\ name \in owned_variable_names[self] =>
           /\ last'.exc = "ValueError"
           /\ ~last'.getter_called
           /\ UNCHANGED <<owned_variables, owned_variable_names>>
      /\ (name \notin owned_variable_names[self] /\ getter_raises) =>
           /\ last'.exc = "GetterError"
           /\ UNCHANGED <<owned_variables, owned_variable_names>>

(***************************************************************************)
(* C7: variable names are unique within a Checkpointable.  An add_variable *)
(* call with a name the object already owns raises ValueError, does not    *)
(* call the getter and leaves _owned_variables and _owned_variable_names   *)
(* unchanged; a call whose getter raises leaves them unchanged too; and in *)
(* every state no two entries of a list share a name and                   *)
(* _owned_variable_names is the set of the names in the list.              *)
(***************************************************************************)
C7_UniqueVariableNames ==
  /\ []UniqueOwnedNames
  /\ [][AddVariableRejectsDuplicate]_vars

\* A duplicate name was just rejected on an object that owns two variables.
C7_Witness ==
  /\ last.op = "add_variable"
  /\ last.exc = "ValueError"
  /\ \E o \in Objs : Len(owned_variables[o]) = 2

TrackRejected(exc) ==
  /\ last'.exc = exc
  /\ UNCHANGED <<checkpoint_dependencies, dependency_names>>

TrackAppended(self, checkpointable, name) ==
  /\ last'.exc = "none"
  /\ last'.ret = checkpointable
  /\ checkpoint_dependencies' =
       [checkpoint_dependencies EXCEPT
          ![self] = @ \o <<[name |-> name, local_uid |-> Len(@),
                            ref |-> checkpointable]>>]
  /\ Len(checkpoint_dependencies'[self]) =
       Len(checkpoint_dependencies[self]) + 1
  /\ UNCHANGED <<owned_variables, owned_variable_names>>

TrackContract ==
  \A self \in Objs \cup {Uninit},
     checkpointable \in Objs \cup {Uninit, NotCk},
     name \in DepNameInputs :
    track_checkpointable(self, checkpointable, name) =>
      IF self = Uninit THEN TrackRejected("RuntimeError")
      ELSE IF checkpointable = NotCk THEN TrackRejected("TypeError")
      ELSE IF name # None /\ ~VALID_LOCAL_NAME(name[1])
        THEN TrackRejected("ValueError")
      ELSE IF name # None /\ name[1] \in dependency_names[self]
        THEN TrackRejected("ValueError")
      ELSE TrackAppended(self, checkpointable, name)

(***************************************************************************)
(* C8: track_checkpointable rejects bad input and leaves the object        *)
(* unchanged.  Its checks run in this order: RuntimeError when __init__    *)
(* was not called on self; TypeError when the argument is not a            *)
(* Checkpointable; ValueError when a given name does not match             *)
(* _VALID_LOCAL_NAME; ValueError when a given name is already the name of  *)
(* a dependency of self.  In each case _checkpoint_dependencies and        *)
(* _dependency_names are unchanged.  Otherwise the call appends exactly    *)
(* one reference (name, local_uid = previous length, ref = argument),      *)
(* leaves the owned variables unchanged and returns its argument.          *)
(***************************************************************************)
C8_TrackRejectsBadInput == [][TrackContract]_vars

\* A name was just rejected by an object that holds a dependency of a name.
C8_Witness ==
  /\ last.op = "track_checkpointable"
  /\ last.exc = "ValueError"
  /\ \E o \in Objs : dependency_names[o] # {}

InvalidSlotNameReachable(root) ==
  \E opt \in Reachable(root) \cap Optimizers :
    \E slot_name \in get_slot_names(slots, opt) : ~VALID_LOCAL_NAME(slot_name)

Twin(o) == o + 10

TwinVariable(v) ==
  IF v.kind = "var" THEN [v EXCEPT !.owner = Twin(@)]
  ELSE IF v.kind = "slot"
    THEN [v EXCEPT !.opt = Twin(@), !.of = [@ EXCEPT !.owner = Twin(@)]]
  ELSE v

TwinDependencies ==
  [o \in {Twin(x) : x \in Objs} |->
     [i \in 1..Len(checkpoint_dependencies[o - 10]) |->
        [checkpoint_dependencies[o - 10][i] EXCEPT !.ref = Twin(@)]]]

TwinOwned ==
  [o \in {Twin(x) : x \in Objs} |->
     [i \in 1..Len(owned_variables[o - 10]) |->
        [owned_variables[o - 10][i] EXCEPT !.variable = TwinVariable(@)]]]

TwinSlots ==
  [o \in {Twin(x) : x \in Optimizers} |->
     {<<p[1], TwinVariable(p[2])>> : p \in slots[o - 10]}]

SameKeysOnTwin ==
  \A root \in Objs \cup {Uninit} :
    LET a == name_variables(root)
        b == name_variables_of(TwinDependencies, TwinOwned, TwinSlots,
                               Twin(root))
    IN /\ a.exc = b.exc
       /\ DOMAIN a.named_variables = DOMAIN b.named_variables
       /\ \A k \in DOMAIN a.named_variables :
            b.named_variables[k] = TwinVariable(a.named_variables[k])

SameResultAgain ==
  last.op = "_name_variables" =>
    LET r == name_variables(last.ret.root) IN
      /\ last.exc = r.exc
      /\ last.ret.named_variables = r.named_variables

(***************************************************************************)
(* C3: checkpoint keys are deterministic.  A second graph built by the     *)
(* same calls on other objects (every object and variable replaced by its  *)
(* twin) gets the same exception or the same set of keys, each key bound   *)
(* to the twin of the variable; the result a _name_variables call returned *)
(* is the result of calling it again; and a _name_variables call changes   *)
(* no dependency list and no owned-variable list.                          *)
(***************************************************************************)
C3_DeterministicKeys ==
  /\ [](SameKeysOnTwin /\ SameResultAgain)
  /\ [][last'.op = "_name_variables" => UNCHANGED graph]_vars

\* A call just returned at least two keys for a root with a dependency.
C3_Witness ==
  /\ last.op = "_name_variables"
  /\ last.exc = "none"
  /\ checkpoint_dependencies[last.ret.root] # <<>>
  /\ Cardinality(DOMAIN last.ret.named_variables) >= 2

Reorderings(n) ==
  {f \in [1..n -> 1..n] : \A i, j \in 1..n : f[i] = f[j] => i = j}

Reordered(o, f) ==
  [owned_variables EXCEPT ![o] = [i \in 1..Len(@) |-> @[f[i]]]]

(***************************************************************************)
(* C10: variables may be created in any order.  For the dependency graph   *)
(* as it is, listing the variables of any one object in any other order    *)
(* (the same add_variable calls, made in another order) gives the same     *)
(* key-to-variable mapping from _name_variables(root).                     *)
(***************************************************************************)
C10_AnyCreationOrder ==
  \A o \in Objs :
    \A f \in Reorderings(Len(owned_variables[o])) :
      \A root \in Roots :
        name_variables_of(checkpoint_dependencies, Reordered(o, f), slots,
                          root)
          = name_variables(root)

\* An object that owns two variables is saved through a dependency.
C10_Witness ==
  \E o \in Objs, root \in Roots :
    /\ Len(owned_variables[o]) >= 2
    /\ root # o
    /\ o \in Reachable(root)
    /\ name_variables(root).exc = "none"


\* The variables add_variable created on an object within reach of root.
OwnedByReachable(root) ==
  {owned_variables[p[1]][p[2]].variable :
     p \in {q \in (Reachable(root) \cap Objs) \X (1..Size) :
              q[2] <= Len(owned_variables[q[1]])}}

\* The slot variables an optimizer within reach of root holds for a variable
\* of OwnedByReachable(root).
SlotsOfReachable(root) ==
  {SlotVariable(p[1], p[2][1], p[2][2]) :
     p \in {q \in (Reachable(root) \cap Optimizers)
                    \X UNION {slots[o] : o \in Optimizers} :
              /\ q[2] \in slots[q[1]]
              /\ q[2][2] \in OwnedByReachable(root)}}

SavedValues(r) == {r.named_variables[k] : k \in DOMAIN r.named_variables}

(***************************************************************************)
(* C11: when _name_variables(root) returns, every value of the mapping is  *)
(* a variable add_variable created on an object within reach of root, or a *)
(* slot variable a reachable optimizer holds for such a variable; and      *)
(* every variable owned by a reachable object is the value of some key.    *)
(***************************************************************************)
C11_OnlyAndAllOwnedVariablesSaved ==
  \A root \in Roots :
    LET r == name_variables(root) IN
      r.exc = "none" =>
        /\ SavedValues(r) \subseteq
             OwnedByReachable(root) \cup SlotsOfReachable(root)
        /\ OwnedByReachable(root) \subseteq SavedValues(r)


\* What the claim says of the two values a returned call holds.
TraversalResultWellFormed ==
  LET b == traversal_call.bfs_sorted
      path == traversal_call.path_to_root
      root == traversal_call.root_checkpointable_reference
  IN /\ b # <<>>
     /\ b[1] = root
     /\ path[root] = <<>>
     /\ \A i, j \in 1..Len(b) : i # j => b[i] # b[j]
     /\ \A i, j \in 1..Len(b) : i < j => Len(path[b[i]]) <= Len(path[b[j]])
     /\ \A i \in 2..Len(b) :
          /\ path[b[i]] # <<>>
          /\ path[b[i]][Len(path[b[i]])] = b[i]
          /\ \E q \in 1..(i - 1) :
               /\ \E n \in 1..Len(checkpoint_dependencies[b[q].ref]) :
                    checkpoint_dependencies[b[q].ref][n] = b[i]
               /\ SubSeq(path[b[i]], 1, Len(path[b[i]]) - 1) = path[b[q]]
     /\ Traversal(root.ref) =
          [exc |-> "none", bfs_sorted |-> b, path_to_root |-> path]

TraversalTerminates ==
  (traversal_call.pc = "while")
    ~> (traversal_call.pc \in {"returned", "raised"})

(***************************************************************************)
(* C16: a call of _breadth_first_checkpointable_traversal that entered its *)
(* loop leaves it, by returning or by raising, on every dependency graph,  *)
(* also one with cycles and objects that depend on themselves.  When it    *)
(* returns, bfs_sorted starts with the root reference, holds no reference  *)
(* twice, lists references in non-decreasing length of their recorded      *)
(* path, the root's path is empty, and the path of every other listed      *)
(* reference ends with that reference and continues the recorded path of   *)
(* an earlier listed reference whose object declares it.                   *)
(***************************************************************************)
C16_TraversalTerminatesBreadthFirst ==
  /\ TraversalTerminates
  /\ [](traversal_call.pc = "returned" => TraversalResultWellFormed)

\* A call returned on a graph in which an object depends on itself and two
\* objects depend on each other.
C16_Witness ==
  /\ traversal_call.pc = "returned"
  /\ Len(traversal_call.bfs_sorted) >= 3
  /\ \E o \in Objs : \E n \in 1..Len(checkpoint_dependencies[o]) :
       checkpoint_dependencies[o][n].ref = o
  /\ \E o \in Objs : \E n \in 1..Len(checkpoint_dependencies[o]) :
       LET d == checkpoint_dependencies[o][n].ref IN
         /\ d # o
         /\ d \in Objs
         /\ \E m \in 1..Len(checkpoint_dependencies[d]) :
              checkpoint_dependencies[d][m].ref = o


\* The call was replace(model_dir=v) and nothing else.
ReplacedModelDirOnly(call) ==
  /\ Len(call.kwargs) = 1
  /\ call.kwargs[1][1] = "model_dir"

\* What replace(model_dir=v) returned.
ReplaceReturnsCopy ==
  ReplacedModelDirOnly(replace_call) =>
    /\ replace_call.exc = "none"
    /\ replace_call.ret \in 1..Len(run_configs)
    /\ replace_call.ret # replace_call.self
    /\ LET new == Properties(run_configs, replace_call.ret)
           original == Properties(run_configs, replace_call.self)
       IN /\ new.model_dir = replace_call.kwargs[1][2]
          /\ \A name \in PropertyNames \ {"model_dir"} :
               new[name] = original[name]

\* No call changes an instance that exists, and the instance a call returns
\* did not exist before.
InstancesKept ==
  /\ \A config \in 1..Len(run_configs) :
       /\ config \in 1..Len(run_configs')
       /\ run_configs'[config] = run_configs[config]
  /\ replace_call'.ret # 0 => replace_call'.ret \notin 1..Len(run_configs)

(***************************************************************************)
(* C12: replace(model_dir=v) returns an instance that did not exist        *)
(* before, whose model_dir is v and whose other properties equal those of  *)
(* the instance it was called on; no call of replace, on the copy or on    *)
(* any other instance, changes an instance that exists.                    *)
(***************************************************************************)
C12_ReplaceModelDirReturnsCopy ==
  /\ []ReplaceReturnsCopy
  /\ [][InstancesKept]_vars

\* A copy of a copy was made, and the three instances differ in model_dir.
C12_Witness ==
  /\ ReplacedModelDirOnly(replace_call)
  /\ replace_call.self = 2
  /\ replace_call.ret = 3
  /\ Properties(run_configs, 1).model_dir = PyNone
  /\ Properties(run_configs, 2).model_dir = PyStr("a")
  /\ Properties(run_configs, 3).model_dir = PyStr("b")


\* Some keyword of the call is not model_dir.
OtherKeywordPassed(call) == Keywords(call.kwargs) \ {"model_dir"} # {}

(***************************************************************************)
(* C13: a call of replace with a keyword other than model_dir, whether or  *)
(* not a property has that name and whether or not model_dir is passed     *)
(* too, raises ValueError and returns no instance, and the instances are   *)
(* after the call what they were before it.                                *)
(***************************************************************************)
C13_OtherKeywordRaisesValueError ==
  /\ [](OtherKeywordPassed(replace_call) =>
          /\ replace_call.exc = "ValueError"
          /\ replace_call.ret = 0)
  /\ [][OtherKeywordPassed(replace_call') => run_configs' = run_configs]_vars


\* The label of the k-th combination of the call.
LabelOf(k) ==
  LET combination == Combinations(zip_call.test_parameters)[k]
  IN Label(zip_call.zip_path, combination[1], combination[2])

\* The label matches a pattern of KNOWN_BUGS.
KnownBug(label) == \E pattern \in KNOWN_BUGS : re_search(pattern, label)

\* The k-th combination ended with toco == FAILED and the failure is not
\* ignored.
FailedNotIgnored(k) ==
  /\ zip_call.convert_report[k][2].toco = "FAILED"
  /\ ~(~FLAGS.known_bugs_are_errors /\ KnownBug(LabelOf(k)))

\* The call is over: it returned or raised RuntimeError.
ZipCallOver == zip_call.pc \in {"returned", "raised"}

CombinationProcessed ==
  Len(zip_call'.convert_report) = Len(zip_call.convert_report) + 1

\* The entries the step added to the archive.
EntriesAdded ==
  SubSeq(zip_call'.archive, Len(zip_call.archive) + 1, Len(zip_call'.archive))

\* The report of the combination the step processed.
ReportOfStep ==
  zip_call'.convert_report[Len(zip_call'.convert_report)][2]

=============================================================================
